---- MODULE Spec2Model ----
(***************************************************************************)
(* Model of the FBX writer emitters of fbx_direct:                         *)
(*   src/src/writer/emitter/ascii.rs   (AsciiEmitter, print_property)      *)
(*   src/src/writer/emitter/binary.rs  (BinaryEmitter)                     *)
(*                                                                         *)
(* The sink is the sequence of chunks handed to it, one chunk per          *)
(* write_all / write_fmt call of the source, in call order.  A chunk is    *)
(* the text of that call.                                                  *)
(***************************************************************************)
EXTENDS Integers, Sequences, FiniteSets, TLC

VARIABLES
    prop_child_existence,  \* AsciiEmitter.prop_child_existence: Seq of <<prop_exist, child_exist>>
    sink,                  \* chunks written to the sink so far
    call,                  \* the last call made on the AsciiEmitter, with its arguments
    result,                \* what that call returned
    calls,                 \* number of calls made so far
    starts,                \* number of emit_start_node calls that returned Ok
    ends,                  \* number of emit_end_node calls that returned Ok
    open_nodes,            \* per open node: the properties it was started with, children started
    version,               \* BinaryEmitter.version
    pos,                   \* BinaryEmitter.pos
    end_offset_pos_stack,  \* BinaryEmitter.end_offset_pos_stack
    bsink,                 \* chunks written to the BinaryEmitter's sink so far
    bcall,                 \* the last call made on the BinaryEmitter
    bresult                \* what that call returned

ascii_vars == <<prop_child_existence, sink, call, result, calls, starts, ends, open_nodes>>
binary_vars == <<version, pos, end_offset_pos_stack, bsink, bcall, bresult>>
vars == <<prop_child_existence, sink, call, result, calls, starts, ends, open_nodes,
          version, pos, end_offset_pos_stack, bsink, bcall, bresult>>

----------------------------------------------------------------------------
(* Bounds and input sets *)

MaxCalls == 5
MaxFbxCalls == 2
MaxIoCalls == 3
MaxFailAt == 3

Names == {"Model"}

\* Supported window of emit_start_fbx: [MinVersion, EndVersion)
MinVersion == 7000
EndVersion == 8000

\* Versions handed to AsciiEmitter::emit_start_fbx in the node-level specification
Versions == {6999, 7400, 8000}

\* Versions around and inside the window, for the document-level specification
WideVersions == {0, 1, 999, 6999, 8000, 8001, 9999, 70000, 2147483647}
                    \cup (7000 .. 7012) \cup (7095 .. 7105) \cup (7395 .. 7405)
                    \cup (7895 .. 7905) \cup (7990 .. 7999)

\* Versions given to BinaryEmitter::new and BinaryEmitter::emit_start_fbx
BinaryVersions == {0, 1, 6999, 7000, 7100, 7300, 7400, 7500, 7999, 8000, 8001, 2147483647}

\* Characters of the text property values of the text specification, and the
\* longest such value
TextChars == {"\"", "\n", "\r", "&", "l", "f", ";"}
MaxTextLen == 4
Texts == UNION {[1 .. n -> TextChars] : n \in 0 .. MaxTextLen}

Bool(b) == <<"Bool", b>>
I32(v) == <<"I32", v>>
I64(v) == <<"I64", v>>
VecBool(v) == <<"VecBool", v>>
VecI32(v) == <<"VecI32", v>>
String(v) == <<"String", v>>

\* Property lists handed to emit_start_node
PropLists == { <<>>,
               <<I32(-3)>>,
               <<Bool(TRUE), String(<<"{", "\"", "\n">>)>>,
               <<VecBool(<<TRUE, FALSE, TRUE>>)>>,
               <<I64(7), VecI32(<<1, 2>>), Bool(FALSE)>> }

\* Comment texts handed to emit_comment, as character sequences
Comments == { <<>>, <<"c">>, <<"c", "\n", "d">> }

----------------------------------------------------------------------------
(* Sequences *)

Last(s) == s[Len(s)]
Front(s) == SubSeq(s, 1, Len(s) - 1)
Take(s, n) == SubSeq(s, 1, n)
Drop(s, n) == SubSeq(s, n + 1, Len(s))

RECURSIVE Flatten(_)
Flatten(ss) == IF ss = <<>> THEN <<>> ELSE Head(ss) \o Flatten(Tail(ss))

\* A sink that fails its (at+1)-th write of this call accepts the first `at` chunks
Accepted(chunks, failing, at) ==
    IF failing /\ at < Len(chunks) THEN Take(chunks, at) ELSE chunks

Failed(chunks, failing, at) == failing /\ at < Len(chunks)

----------------------------------------------------------------------------
(* fn indent *)

indent(depth) == [i \in 1 .. depth |-> "\t"]

----------------------------------------------------------------------------
(* fn print_property *)

BoolToken(b) == IF b THEN "Y" ELSE "T"

\* Mutant: the carriage return left as it is
EscapeChar_NoCr(c) ==
    CASE c = "\"" -> "&quot;"
      [] c = "\n" -> "&lf;"
      [] OTHER -> c

EscapeChar(c) ==
    CASE c = "\"" -> "&quot;"
      [] c = "\n" -> "&lf;"
      [] c = "\r" -> "&cr;"
      [] OTHER -> c

\* generic_vec_print!, and the VecBool arm, which differ in the element format only
VecHeader(len) == "*" \o ToString(len) \o " {\n"

\* Mutant: the closing brace indented like the element line
VecChunks_DeepClose(elems, prop_depth) ==
    <<VecHeader(Len(elems))>>
        \o indent(prop_depth)
        \o <<"a: ">>
        \o [i \in 1 .. Len(elems) |-> IF i = 1 THEN elems[i] ELSE "," \o elems[i]]
        \o <<"\n">>
        \o indent(prop_depth)
        \o <<"}">>

VecChunks(elems, prop_depth) ==
    <<VecHeader(Len(elems))>>
        \o indent(prop_depth)
        \o <<"a: ">>
        \o [i \in 1 .. Len(elems) |-> IF i = 1 THEN elems[i] ELSE "," \o elems[i]]
        \o <<"\n">>
        \o indent(prop_depth - 1)
        \o <<"}">>

\* The F32, F64, VecF32, VecF64 and Binary arms (one number or one quoted base64
\* text per write, formatted by the host) are not modelled: TLC has no floats or
\* bytes.  Integers stay within 32 bits.
print_property(property, prop_depth) ==
    LET tag == property[1]
        v == property[2]
    IN  CASE tag = "Bool" -> <<BoolToken(v)>>
          [] tag \in {"I16", "I32", "I64"} -> <<ToString(v)>>
          [] tag = "VecBool" ->
                VecChunks([i \in 1 .. Len(v) |-> BoolToken(v[i])], prop_depth)
          [] tag \in {"VecI32", "VecI64"} ->
                VecChunks([i \in 1 .. Len(v) |-> ToString(v[i])], prop_depth)
          [] tag = "String" ->
                <<"\"">> \o [i \in 1 .. Len(v) |-> EscapeChar(v[i])] \o <<"\"">>

\* Mutant: the separator written after every property
PropertyChunks_Trailing(properties, prop_depth) ==
    Flatten([i \in 1 .. Len(properties) |->
                print_property(properties[i], prop_depth) \o <<", ">>])

\* The property loop of emit_start_node: first property bare, each later one after ", "
PropertyChunks(properties, prop_depth) ==
    Flatten([i \in 1 .. Len(properties) |->
                (IF i = 1 THEN <<>> ELSE <<", ">>)
                    \o print_property(properties[i], prop_depth)])

----------------------------------------------------------------------------
(* str::lines, as used by emit_comment *)

RECURSIVE Join(_)
Join(chars) == IF chars = <<>> THEN "" ELSE Head(chars) \o Join(Tail(chars))

FirstLf(chars) ==
    IF \E i \in 1 .. Len(chars) : chars[i] = "\n"
    THEN CHOOSE i \in 1 .. Len(chars) :
            /\ chars[i] = "\n"
            /\ \A j \in 1 .. (i - 1) : chars[j] # "\n"
    ELSE 0

StripCr(chars) ==
    IF chars # <<>> /\ Last(chars) = "\r" THEN Front(chars) ELSE chars

RECURSIVE Lines(_)
Lines(chars) ==
    IF chars = <<>> THEN <<>>
    ELSE LET i == FirstLf(chars)
         IN  IF i = 0 THEN <<Join(chars)>>
             ELSE <<Join(StripCr(Take(chars, i - 1)))>> \o Lines(Drop(chars, i))

----------------------------------------------------------------------------
(* impl AsciiEmitter *)

Ok == <<"Ok">>
Io == <<"Io">>
\* A panic: the call does not return to its caller
Panic == <<"Panic">>
UnsupportedFbxVersion(ver) == <<"UnsupportedFbxVersion", ver>>

Outcome(chunks, failing, at) == IF Failed(chunks, failing, at) THEN Io ELSE Ok

\* History kept for each open node next to its stack record: the property list
\* it was started with and the number of children started under it so far
NewNode(properties) == [properties |-> properties, children |-> 0]

(* emit_start_fbx *)

\* Mutant: the lower bound of the window taken as exclusive
VersionSupported_Exclusive(ver) == ~((ver <= MinVersion) \/ (ver >= EndVersion))

VersionSupported(ver) == ~((ver < MinVersion) \/ (ver >= EndVersion))

VersionMajor(ver) == ver \div 1000

\* Mutant: the remainder split at the tens
VersionMinor_Tens(ver) == (ver % 1000) \div 10

VersionMinor(ver) == (ver % 1000) \div 100
VersionRevision(ver) == (ver % 1000) % 100

FormatHeader(major, minor, revision) ==
    "; FBX " \o ToString(major) \o "." \o ToString(minor) \o "." \o ToString(revision)
        \o " project file\n"

HeaderChunks(ver) ==
    <<FormatHeader(VersionMajor(ver), VersionMinor(ver), VersionRevision(ver))>>

StartFbxStack(stack) == stack

emit_start_fbx(ver, failing, at) ==
    /\ call' = <<"emit_start_fbx", ver>>
    /\ calls' = calls + 1
    /\ IF ~VersionSupported(ver)
       THEN /\ result' = UnsupportedFbxVersion(ver)
            /\ sink' = sink
       ELSE /\ result' = Outcome(HeaderChunks(ver), failing, at)
            /\ sink' = sink \o Accepted(HeaderChunks(ver), failing, at)
    /\ prop_child_existence' = StartFbxStack(prop_child_existence)
    /\ UNCHANGED <<starts, ends, open_nodes>>

(* emit_end_fbx *)

EndFbxStack(stack) == stack

emit_end_fbx ==
    /\ call' = <<"emit_end_fbx">>
    /\ calls' = calls + 1
    /\ result' = Ok
    /\ prop_child_existence' = EndFbxStack(prop_child_existence)
    /\ UNCHANGED <<sink, starts, ends, open_nodes>>

(* emit_start_node *)

\* Mutant: the parent's brace is written at every child
ParentBraceNeeded_Always(child_exist) == TRUE

\* line 168: the parent's brace is written at its first child
ParentBraceNeeded(child_exist) == ~child_exist

\* Mutant: the parent pushed back as it was popped
MarkedParent_Kept(prop_exist, child_exist) == <<prop_exist, child_exist>>

\* Mutant: the two flags of the parent mixed up
MarkedParent_Swapped(prop_exist, child_exist) == <<child_exist, TRUE>>

\* line 171: the parent record pushed back
MarkedParent(prop_exist, child_exist) == <<prop_exist, TRUE>>

\* line 175: the record pushed for the node being started
NewRecord(properties) == <<properties # <<>>, FALSE>>

ParentBraceChunks(stack) ==
    IF stack # <<>> /\ ParentBraceNeeded(Last(stack)[2]) THEN <<" {\n">> ELSE <<>>

\* lines 165-172: the stack once the parent has been popped, inspected and pushed back
ParentMarked(stack) ==
    IF stack # <<>>
    THEN Append(Front(stack), MarkedParent(Last(stack)[1], Last(stack)[2]))
    ELSE stack

\* Mutant: the record of the started node is never pushed
NamePushed_NoPush(stack, properties) == ParentMarked(stack)

NamePushed(stack, properties) == Append(ParentMarked(stack), NewRecord(properties))

\* Mutant: the name indented by the depth after the push
StartNodeChunks_DeepName(stack, name, properties) ==
    ParentBraceChunks(stack)
        \o indent(Len(NamePushed(stack, properties)))
        \o <<name \o ": ">>
        \o PropertyChunks(properties, Len(NamePushed(stack, properties)))

StartNodeChunks(stack, name, properties) ==
    ParentBraceChunks(stack)
        \o indent(Len(ParentMarked(stack)))
        \o <<name \o ": ">>
        \o PropertyChunks(properties, Len(NamePushed(stack, properties)))

\* The stack a call leaves behind, by the write at which the sink fails (if any):
\* the parent is off the stack while its brace is written, and the new record is
\* pushed between the indentation and the name.
StartNodeStack(stack, properties, failing, at) ==
    IF failing /\ at < Len(ParentBraceChunks(stack))
    THEN Front(stack)
    ELSE IF failing
            /\ at < Len(ParentBraceChunks(stack)) + Len(indent(Len(ParentMarked(stack))))
         THEN ParentMarked(stack)
         ELSE NamePushed(stack, properties)

StartNodeHistory(stack, hist, properties, failing, at) ==
    LET after == StartNodeStack(stack, properties, failing, at)
    IN  IF Len(after) < Len(stack) THEN Front(hist)
        ELSE IF Len(after) = Len(stack) THEN hist
        ELSE IF hist = <<>> THEN <<NewNode(properties)>>
        ELSE Append(Append(Front(hist), [Last(hist) EXCEPT !.children = @ + 1]),
                    NewNode(properties))

emit_start_node(name, properties, failing, at) ==
    LET chunks == StartNodeChunks(prop_child_existence, name, properties)
    IN  /\ call' = <<"emit_start_node", name, properties>>
        /\ calls' = calls + 1
        /\ result' = Outcome(chunks, failing, at)
        /\ sink' = sink \o Accepted(chunks, failing, at)
        /\ prop_child_existence' =
                StartNodeStack(prop_child_existence, properties, failing, at)
        /\ open_nodes' =
                StartNodeHistory(prop_child_existence, open_nodes, properties, failing, at)
        /\ starts' = IF Failed(chunks, failing, at) THEN starts ELSE starts + 1
        /\ UNCHANGED ends

(* emit_end_node *)

\* Mutant: a node without properties and children ends as a bare line
EndNodeChunks_BareEmpty(prop_exist, child_exist, depth) ==
    IF child_exist THEN indent(depth) \o <<"}\n">> ELSE <<"\n">>

\* Mutant: every node is closed with a brace
EndNodeChunks_AlwaysBrace(prop_exist, child_exist, depth) ==
    (IF ~child_exist THEN <<" {\n">> ELSE <<>>) \o indent(depth) \o <<"}\n">>

\* lines 193-201: the three closing shapes
EndNodeChunks(prop_exist, child_exist, depth) ==
    IF ~prop_exist \/ child_exist
    THEN (IF ~prop_exist /\ ~child_exist THEN <<" {\n">> ELSE <<>>)
            \o indent(depth)
            \o <<"}\n">>
    ELSE <<"\n">>

\* Mutant: an empty stack is silently accepted
PopNone_Ignored == Ok

\* line 192: pop().unwrap() on an empty stack
PopNone == Panic

\* line 192: pop
EndNodeStack(stack) == Front(stack)

emit_end_node(failing, at) ==
    /\ call' = <<"emit_end_node">>
    /\ calls' = calls + 1
    /\ IF prop_child_existence = <<>>
       THEN /\ result' = PopNone
            /\ UNCHANGED <<prop_child_existence, sink, open_nodes, starts, ends>>
       ELSE LET top == Last(prop_child_existence)
                rest == EndNodeStack(prop_child_existence)
                chunks == EndNodeChunks(top[1], top[2], Len(rest))
            IN  /\ result' = Outcome(chunks, failing, at)
                /\ sink' = sink \o Accepted(chunks, failing, at)
                /\ prop_child_existence' = rest
                /\ open_nodes' = SubSeq(open_nodes, 1, Len(rest))
                /\ ends' = IF Failed(chunks, failing, at) THEN ends ELSE ends + 1
                /\ UNCHANGED starts

(* emit_comment *)

CommentChunks(comment, depth) ==
    Flatten([i \in 1 .. Len(Lines(comment)) |->
                indent(depth) \o <<Lines(comment)[i]>> \o <<"\n">>])

\* Mutant: a comment counted as a child of the open node
CommentStack_AsChild(stack) == ParentMarked(stack)

CommentStack(stack) == stack

emit_comment(comment, failing, at) ==
    LET chunks == CommentChunks(comment, Len(prop_child_existence))
    IN  /\ call' = <<"emit_comment", comment>>
        /\ calls' = calls + 1
        /\ result' = Outcome(chunks, failing, at)
        /\ sink' = sink \o Accepted(chunks, failing, at)
        /\ prop_child_existence' = CommentStack(prop_child_existence)
        /\ UNCHANGED <<starts, ends, open_nodes>>

----------------------------------------------------------------------------
(* impl BinaryEmitter *)

Unimplemented(msg) == <<"Unimplemented", msg>>

BinaryNew(v) ==
    /\ version = v
    /\ pos = 0
    /\ end_offset_pos_stack = <<>>
    /\ bsink = <<>>
    /\ bcall = <<"new", v>>
    /\ bresult = Ok

\* Mutant: supported versions accepted
BinaryStartFbxResult_Accepting(ver) ==
    IF VersionSupported(ver)
    THEN Ok
    ELSE Unimplemented("BinaryEmitter::emit_start_fbx() is unimplemented yet")

BinaryStartFbxResult(ver) ==
    Unimplemented("BinaryEmitter::emit_start_fbx() is unimplemented yet")

BinaryStartFbxVersion(old, ver) == old

binary_emit_start_fbx(ver) ==
    /\ bcall' = <<"emit_start_fbx", ver>>
    /\ bresult' = BinaryStartFbxResult(ver)
    /\ version' = BinaryStartFbxVersion(version, ver)
    /\ UNCHANGED <<pos, end_offset_pos_stack, bsink>>

----------------------------------------------------------------------------
(* Specifications *)

AsciiNew ==
    /\ prop_child_existence = <<>>
    /\ sink = <<>>
    /\ call = <<"new">>
    /\ result = Ok
    /\ calls = 0
    /\ starts = 0
    /\ ends = 0
    /\ open_nodes = <<>>

\* Node-level specification: one AsciiEmitter writing to a sink that accepts every write
Init == AsciiNew /\ BinaryNew(7400)

StartFbx ==
    /\ calls < MaxCalls
    /\ \E ver \in Versions : emit_start_fbx(ver, FALSE, 0)
    /\ UNCHANGED binary_vars

EndFbx ==
    /\ calls < MaxCalls
    /\ emit_end_fbx
    /\ UNCHANGED binary_vars

StartNode ==
    /\ calls < MaxCalls
    /\ \E name \in Names, properties \in PropLists :
            emit_start_node(name, properties, FALSE, 0)
    /\ UNCHANGED binary_vars

EndNode ==
    /\ calls < MaxCalls
    /\ emit_end_node(FALSE, 0)
    /\ UNCHANGED binary_vars

Comment ==
    /\ calls < MaxCalls
    /\ \E comment \in Comments : emit_comment(comment, FALSE, 0)
    /\ UNCHANGED binary_vars

Next == StartFbx \/ EndFbx \/ StartNode \/ EndNode \/ Comment

Spec == Init /\ [][Next]_vars

\* Document-level specification: emit_start_fbx over the versions around the window
StartFbxWide ==
    /\ calls < MaxFbxCalls
    /\ \E ver \in WideVersions : emit_start_fbx(ver, FALSE, 0)
    /\ UNCHANGED binary_vars

EndFbxWide ==
    /\ calls < MaxFbxCalls
    /\ emit_end_fbx
    /\ UNCHANGED binary_vars

NextFbx == StartFbxWide \/ EndFbxWide

SpecFbx == Init /\ [][NextFbx]_vars

\* Text specification: print_property over every text value up to MaxTextLen
\* characters, as the only property of a node started on a fresh emitter
StartNodeText ==
    /\ calls = 0
    /\ \E text \in Texts : emit_start_node("Model", <<String(text)>>, FALSE, 0)
    /\ UNCHANGED binary_vars

NextText == StartNodeText

SpecText == Init /\ [][NextText]_vars

\* Failing-sink specification: the sink of each call either accepts every write
\* or fails the write after the first `at` of that call
SinkFaults == {<<FALSE, 0>>} \cup {<<TRUE, at>> : at \in 0 .. MaxFailAt}

StartNodeIo ==
    /\ calls < MaxIoCalls
    /\ \E name \in Names, properties \in PropLists, fault \in SinkFaults :
            emit_start_node(name, properties, fault[1], fault[2])
    /\ UNCHANGED binary_vars

EndNodeIo ==
    /\ calls < MaxIoCalls
    /\ \E fault \in SinkFaults : emit_end_node(fault[1], fault[2])
    /\ UNCHANGED binary_vars

NextIo == StartNodeIo \/ EndNodeIo

SpecIo == Init /\ [][NextIo]_vars

\* The BinaryEmitter, constructed with any version
InitBinary == AsciiNew /\ \E v \in BinaryVersions : BinaryNew(v)

BinaryStartFbx ==
    /\ \E ver \in BinaryVersions : binary_emit_start_fbx(ver)
    /\ UNCHANGED ascii_vars

NextBinary == BinaryStartFbx

SpecBinary == InitBinary /\ [][NextBinary]_vars

----------------------------------------------------------------------------
(* Properties *)

\* What the step wrote to the sink
Written == SubSeq(sink', Len(sink) + 1, Len(sink'))

Count(s, x) == Cardinality({i \in 1 .. Len(s) : s[i] = x})

IsCall(c, name) == c[1] = name

\* The step is a call of `name` that returned Ok
OkStep(name) == calls' = calls + 1 /\ IsCall(call', name) /\ result' = <<"Ok">>

\* C1: with every call so far successful or rejected without effect, the length of
\* prop_child_existence is the number of emit_start_node calls minus the number of
\* emit_end_node calls; a start adds exactly one record, an end removes exactly
\* one, and the stack is empty once every opened node is closed.
C1_DepthCountsOpenNodes ==
    /\ [](/\ Len(prop_child_existence) = starts - ends
          /\ (starts = ends => prop_child_existence = <<>>))
    /\ [][/\ OkStep("emit_start_node")
                => Len(prop_child_existence') = Len(prop_child_existence) + 1
          /\ OkStep("emit_end_node")
                => Len(prop_child_existence') = Len(prop_child_existence) - 1]_vars

C1_Witness ==
    /\ starts = 2
    /\ ends = 2
    /\ prop_child_existence = <<>>
    /\ IsCall(call, "emit_end_node")

\* C2 (as claimed): emit_end_node on an empty stack returns a failure to its
\* caller, writes nothing and leaves the emitter unchanged.
C2_EmptyEndReturnsFailure ==
    [][(calls' = calls + 1 /\ IsCall(call', "emit_end_node") /\ prop_child_existence = <<>>)
            => /\ result'[1] \in {"Io", "UnsupportedFbxVersion", "Unimplemented"}
               /\ sink' = sink
               /\ prop_child_existence' = prop_child_existence]_vars

\* C2 (amended): emit_end_node on an empty stack never proceeds: it panics instead
\* of returning, writes nothing and leaves the emitter unchanged.
C2_EmptyEndPanics ==
    [][(calls' = calls + 1 /\ IsCall(call', "emit_end_node") /\ prop_child_existence = <<>>)
            => /\ result' = <<"Panic">>
               /\ sink' = sink
               /\ prop_child_existence' = prop_child_existence]_vars

C2_Witness ==
    /\ IsCall(call, "emit_end_node")
    /\ result = <<"Panic">>
    /\ starts = 1
    /\ ends = 1

\* C3: the opening brace of a node with children is written exactly once, by the
\* emit_start_node of its first child and before that child's own line: an
\* emit_start_node writes one " {\n" when the node it is started under has no
\* child yet and none otherwise, and the emit_end_node of a node with children
\* writes the indentation and the closing brace only.
C3_BraceAtFirstChild ==
    [][/\ OkStep("emit_start_node")
            => /\ Count(Written, " {\n")
                    = (IF open_nodes # <<>> /\ Last(open_nodes).children = 0
                       THEN 1 ELSE 0)
               /\ Count(Written, " {\n") = 1 => Written[1] = " {\n"
       /\ (OkStep("emit_end_node") /\ Last(open_nodes).children >= 1)
            => Written = [i \in 1 .. Len(open_nodes) - 1 |-> "\t"] \o <<"}\n">>]_vars

C3_Witness ==
    /\ IsCall(call, "emit_end_node")
    /\ sink = <<"Model: ", "-3", " {\n", "\t", "Model: ", "-3", "\n", "}\n">>

\* C4: a node started with an empty property list and ended without a child is
\* closed by " {\n", its indentation and "}\n".
C4_EmptyNodeGetsBraces ==
    [][(/\ OkStep("emit_end_node")
        /\ Last(open_nodes).properties = <<>>
        /\ Last(open_nodes).children = 0)
            => Written = <<" {\n">> \o [i \in 1 .. Len(open_nodes) - 1 |-> "\t"]
                            \o <<"}\n">>]_vars

C4_Witness ==
    /\ IsCall(call, "emit_end_node")
    /\ sink = <<"Model: ", " {\n", "\t", "Model: ", " {\n", "\t", "}\n">>

\* Chunks that carry a structural brace or a line terminator
BraceOrLineEnd ==
    {" {\n", "}\n", "}", "\n", "*0 {\n", "*1 {\n", "*2 {\n", "*3 {\n", "*4 {\n"}

\* What an emit_start_node step wrote after the node's name
WrittenProperties ==
    LET lead == (IF open_nodes # <<>> /\ Last(open_nodes).children = 0 THEN 1 ELSE 0)
                    + Len(open_nodes) + 1
    IN  SubSeq(Written, lead + 1, Len(Written))

HasArray(properties) ==
    \E i \in 1 .. Len(properties) : properties[i][1] \in {"VecBool", "VecI32", "VecI64"}

\* C5 (as claimed): for a node started with any non-empty property list and ended
\* without a child, the properties are written without a brace or a line
\* terminator, and emit_end_node writes the one line terminator.
C5_PropertiesOnOneLine ==
    [][/\ (OkStep("emit_start_node") /\ call'[3] # <<>>)
            => \A i \in 1 .. Len(WrittenProperties) :
                    WrittenProperties[i] \notin BraceOrLineEnd
       /\ (/\ OkStep("emit_end_node")
           /\ Last(open_nodes).properties # <<>>
           /\ Last(open_nodes).children = 0)
            => Written = <<"\n">>]_vars

\* C5 (amended): a node started with a non-empty property list and ended without
\* a child gets no node brace, emit_end_node writing one line terminator and
\* nothing else; its properties are written without a structural brace or line
\* terminator when none of them is an array, while an array property brings its
\* own "*k {" header, two line terminators and "}".
C5_ScalarPropertiesOnOneLine ==
    [][/\ (OkStep("emit_start_node") /\ call'[3] # <<>> /\ ~HasArray(call'[3]))
            => \A i \in 1 .. Len(WrittenProperties) :
                    WrittenProperties[i] \notin BraceOrLineEnd
       /\ (OkStep("emit_start_node") /\ HasArray(call'[3]))
            => /\ Count(WrittenProperties, "\n") >= 1
               /\ Count(WrittenProperties, "}") >= 1
               /\ Count(WrittenProperties, " {\n") = 0
               /\ Count(WrittenProperties, "}\n") = 0
       /\ (/\ OkStep("emit_end_node")
           /\ Last(open_nodes).properties # <<>>
           /\ Last(open_nodes).children = 0)
            => Written = <<"\n">>]_vars

C5_Witness ==
    /\ IsCall(call, "emit_end_node")
    /\ sink = <<"Model: ", "Y", ", ", "\"", "{", "&quot;", "&lf;", "\"", "\n">>

\* C6: emit_start_fbx accepts exactly the versions from 7000 up to and excluding
\* 8000; for any other version it returns UnsupportedFbxVersion carrying that
\* version and writes nothing.
C6_VersionWindow ==
    [][(calls' = calls + 1 /\ IsCall(call', "emit_start_fbx"))
            => IF 7000 <= call'[2] /\ call'[2] < 8000
               THEN result' = <<"Ok">> /\ Len(Written) = 1
               ELSE result' = <<"UnsupportedFbxVersion", call'[2]>> /\ sink' = sink]_vars

C6_Witness ==
    /\ calls = 2
    /\ call = <<"emit_start_fbx", 8000>>
    /\ result = <<"UnsupportedFbxVersion", 8000>>
    /\ sink = <<"; FBX 7.0.0 project file\n">>

C7_Line(major, minor, revision) ==
    "; FBX " \o ToString(major) \o "." \o ToString(minor) \o "." \o ToString(revision)
        \o " project file\n"

\* C7: the header line of an accepted version v carries major 7 = v / 1000 and
\* the minor in 0..9 and revision in 0..99 with 7000 + minor*100 + revision = v;
\* 7400 gives 7.4.0.
C7_HeaderDecomposition ==
    [][OkStep("emit_start_fbx")
            => /\ \E minor \in 0 .. 9, revision \in 0 .. 99 :
                    /\ 7 * 1000 + minor * 100 + revision = call'[2]
                    /\ 7 = call'[2] \div 1000
                    /\ Written = <<C7_Line(7, minor, revision)>>
               /\ call'[2] = 7400 => Written = <<"; FBX 7.4.0 project file\n">>]_vars

C7_Witness ==
    /\ call = <<"emit_start_fbx", 7400>>
    /\ result = <<"Ok">>
    /\ sink = <<"; FBX 7.9.99 project file\n", "; FBX 7.4.0 project file\n">>

\* The flags the start/end history of the open nodes determines
HistoryFlags ==
    [i \in 1 .. Len(open_nodes) |->
        <<open_nodes[i].properties # <<>>, open_nodes[i].children >= 1>>]

\* C8: emit_comment leaves every record of prop_child_existence as it was, so the
\* flags that decide the braces of later calls are those the emit_start_node and
\* emit_end_node calls alone determine, whatever comments came in between.
C8_CommentKeepsStack ==
    /\ [](prop_child_existence = HistoryFlags)
    /\ [][(calls' = calls + 1 /\ IsCall(call', "emit_comment"))
            => prop_child_existence' = prop_child_existence]_vars

C8_Witness ==
    /\ call = <<"emit_comment", <<"c", "\n", "d">>>>
    /\ result = <<"Ok">>
    /\ prop_child_existence = <<<<TRUE, TRUE>>, <<FALSE, FALSE>>>>

\* C9: after emit_end_fbx, and when a following emit_start_fbx has succeeded, the
\* node stack is empty, whatever calls came before.
C9_NoStateAcrossDocuments ==
    (IsCall(call, "emit_end_fbx") \/ (IsCall(call, "emit_start_fbx") /\ result = <<"Ok">>))
        => prop_child_existence = <<>>

\* C10: BinaryEmitter::emit_start_fbx returns Unimplemented for every version and
\* in every emitter state, writes nothing and leaves version, pos and
\* end_offset_pos_stack unchanged.
C10_BinaryStartUnimplemented ==
    /\ [](IsCall(bcall, "emit_start_fbx") => bresult[1] = "Unimplemented")
    /\ [][/\ IsCall(bcall', "emit_start_fbx")
          /\ bresult'[1] = "Unimplemented"
          /\ bsink' = bsink
          /\ version' = version
          /\ pos' = pos
          /\ end_offset_pos_stack' = end_offset_pos_stack]_vars

C10_Witness ==
    /\ bcall = <<"emit_start_fbx", 7400>>
    /\ bresult[1] = "Unimplemented"
    /\ version = 7000
    /\ bsink = <<>>

\* The bytes of a sequence of chunks
Bytes(chunks) == Join(chunks)

\* The state follows emit_start_node("Model", <<String(text)>>) on a fresh emitter
TextStarted ==
    /\ calls = 1
    /\ IsCall(call, "emit_start_node")
    /\ Len(call[3]) = 1
    /\ call[3][1][1] = "String"

\* C11: two different text values never give the same escaped output.
C11_EscapingInjective ==
    TextStarted
        => \A other \in Texts :
                other # call[3][1][2]
                    => Bytes(print_property(<<"String", other>>, 1))
                            # Bytes(SubSeq(sink, 2, Len(sink)))

C12_Escaped(c) ==
    IF c = "\"" THEN "&quot;"
    ELSE IF c = "\n" THEN "&lf;"
    ELSE IF c = "\r" THEN "&cr;"
    ELSE c

\* C12: a text value is written as a double quote, then for each character in
\* order &quot; for a double quote, &lf; for a line feed, &cr; for a carriage
\* return and the character itself otherwise, then a double quote; nothing
\* written between the two quotes is a raw double quote, line feed or carriage
\* return.
C12_TextEscaped ==
    TextStarted
        => LET text == call[3][1][2]
               out == SubSeq(sink, 2, Len(sink))
           IN  /\ Len(out) = Len(text) + 2
               /\ out[1] = "\""
               /\ out[Len(out)] = "\""
               /\ \A i \in 1 .. Len(text) :
                    /\ out[i + 1] = C12_Escaped(text[i])
                    /\ out[i + 1] \notin {"\"", "\n", "\r"}

C12_Witness ==
    /\ TextStarted
    /\ call[3][1][2] = <<"\"", "\n", "\r", "&">>
    /\ sink = <<"Model: ", "\"", "&quot;", "&lf;", "&cr;", "&", "\"">>

\* C13: a list of n >= 1 properties is written as its n property tokens in call
\* order with exactly n-1 separators ", ", one between each two neighbours and
\* none before the first or after the last; an empty list writes nothing.
C13_PropertiesSeparated ==
    [][OkStep("emit_start_node")
            => LET properties == call'[3]
                   depth == Len(open_nodes) + 1
                   token(i) == print_property(properties[i], depth)
                   expected ==
                        Flatten([i \in 1 .. Len(properties) |->
                                    IF i < Len(properties)
                                    THEN token(i) \o <<", ">>
                                    ELSE token(i)])
               IN  /\ WrittenProperties = expected
                   /\ Count(WrittenProperties, ", ")
                        = (IF properties = <<>> THEN 0 ELSE Len(properties) - 1)
                   /\ properties = <<>> => WrittenProperties = <<>>
                   /\ properties # <<>>
                        => /\ WrittenProperties[1] # ", "
                           /\ WrittenProperties[Len(WrittenProperties)] # ", "]_vars

C13_Witness ==
    /\ IsCall(call, "emit_start_node")
    /\ Len(call[3]) = 3
    /\ sink = <<"Model: ", "7", ", ", "*2 {\n", "\t", "a: ", "1", ",2", "\n", "}", ", ", "T">>

Tabs(n) == [i \in 1 .. n |-> "\t"]

C14_Token(tag, v) == IF tag = "VecBool" THEN (IF v THEN "Y" ELSE "T") ELSE ToString(v)

\* The rendering C14 gives for an array of tokens under d open ancestors
C14_Array(tokens, d) ==
    <<"*" \o ToString(Len(tokens)) \o " {\n">>
        \o Tabs(d + 1)
        \o <<"a: ">>
        \o [i \in 1 .. Len(tokens) |-> IF i = 1 THEN tokens[i] ELSE "," \o tokens[i]]
        \o <<"\n">>
        \o Tabs(d)
        \o <<"}">>

\* C14: an array property of k elements of a node with d open ancestors is
\* written as "*k {", a line break, d+1 tabs, "a: ", the elements separated by
\* single commas, a line break, d tabs and "}"; booleans are written Y for true
\* and T for false, so [true, false, true] gives count 3 and Y,T,Y.
C14_ArrayRendering ==
    [][OkStep("emit_start_node")
            => LET properties == call'[3]
                   d == Len(open_nodes)
               IN  /\ properties = <<<<"VecBool", <<TRUE, FALSE, TRUE>>>>>>
                        => /\ WrittenProperties = C14_Array(<<"Y", "T", "Y">>, d)
                           /\ WrittenProperties[1] = "*3 {\n"
                   /\ (Len(properties) = 1 /\ HasArray(properties))
                        => WrittenProperties
                            = C14_Array([i \in 1 .. Len(properties[1][2]) |->
                                            C14_Token(properties[1][1], properties[1][2][i])], d)
                   /\ properties = <<<<"I64", 7>>, <<"VecI32", <<1, 2>>>>, <<"Bool", FALSE>>>>
                        => WrittenProperties
                            = <<"7", ", ">> \o C14_Array(<<"1", "2">>, d) \o <<", ", "T">>
                   /\ (properties # <<>> /\ properties[1] = <<"Bool", TRUE>>)
                        => WrittenProperties[1] = "Y"]_vars

C14_Witness ==
    /\ IsCall(call, "emit_start_node")
    /\ sink = <<"Model: ", " {\n", "\t", "Model: ", " {\n", "\t", "\t", "Model: ",
                "*3 {\n", "\t", "\t", "\t", "a: ", "Y", ",T", ",Y", "\n", "\t", "\t", "}">>

\* C15: emit_start_node writes before the node's name as many tabs as nodes were
\* open before the call, and a closing brace written by emit_end_node follows
\* as many tabs as the node's own name line has.
C15_IndentationIsDepth ==
    [][/\ OkStep("emit_start_node")
            => LET lead == IF open_nodes # <<>> /\ Last(open_nodes).children = 0
                           THEN 1 ELSE 0
               IN  /\ SubSeq(Written, lead + 1, lead + Len(open_nodes))
                        = Tabs(Len(open_nodes))
                   /\ Written[lead + Len(open_nodes) + 1] = call'[2] \o ": "
       /\ (OkStep("emit_end_node") /\ Written # <<"\n">>)
            => /\ Written[Len(Written)] = "}\n"
               /\ Count(Written, "\t") = Len(open_nodes) - 1
               /\ SubSeq(Written, Len(Written) - (Len(open_nodes) - 1), Len(Written) - 1)
                    = Tabs(Len(open_nodes) - 1)]_vars

C15_Witness ==
    /\ IsCall(call, "emit_end_node")
    /\ sink = <<"Model: ", " {\n", "\t", "Model: ", " {\n", "\t", "\t", "Model: ",
                " {\n", "\t", "\t", "}\n", "\t", "}\n">>

\* C16: the number of node opening braces written minus the number of node
\* closing braces written is the number of stack records whose has-emitted-child
\* flag is true; with every node closed the two numbers are equal.
C16_BracesBalanced ==
    /\ Count(sink, " {\n") - Count(sink, "}\n")
            = Cardinality({i \in 1 .. Len(prop_child_existence) :
                                prop_child_existence[i][2]})
    /\ prop_child_existence = <<>> => Count(sink, " {\n") = Count(sink, "}\n")

C16_Witness ==
    /\ prop_child_existence = <<<<FALSE, TRUE>>>>
    /\ Count(sink, " {\n") = 2
    /\ Count(sink, "}\n") = 1
    /\ IsCall(call, "emit_comment")

\* C17: every record below the top has has-emitted-child true; the
\* has-properties flag of a record never changes while it is on the stack and
\* has-emitted-child only goes from false to true; emit_start_node changes no
\* record but the one that was on top.
C17_RecordFlags ==
    /\ [](\A i \in 1 .. Len(prop_child_existence) - 1 : prop_child_existence[i][2])
    /\ [][/\ \A i \in 1 .. Len(prop_child_existence) :
                i <= Len(prop_child_existence')
                    => /\ prop_child_existence'[i][1] = prop_child_existence[i][1]
                       /\ prop_child_existence[i][2] => prop_child_existence'[i][2]
          /\ OkStep("emit_start_node")
                => \A i \in 1 .. Len(prop_child_existence) - 1 :
                        prop_child_existence'[i] = prop_child_existence[i]]_vars

C17_Witness ==
    /\ IsCall(call, "emit_start_node")
    /\ prop_child_existence = <<<<FALSE, TRUE>>, <<TRUE, TRUE>>, <<FALSE, FALSE>>>>
    /\ starts = 4

\* C18: when a sink write fails inside emit_start_node or emit_end_node, the call
\* returns the I/O error and leaves the node stack exactly as it was.
C18_FailedCallKeepsStack ==
    [][(/\ calls' = calls + 1
        /\ call'[1] \in {"emit_start_node", "emit_end_node"}
        /\ result' = <<"Io">>)
            => prop_child_existence' = prop_child_existence]_vars

\* Chunks that end with a line terminator
C19_EndsLine(chunk) ==
    chunk \in {" {\n", "}\n", "\n", "; FBX 7.4.0 project file\n"}

\* C19: wherever emit_comment can be called, what has been written so far is
\* empty or ends with a line terminator, so every comment line starts a line.
C19_CommentStartsLine ==
    sink = <<>> \/ C19_EndsLine(Last(sink))

====
